---- MODULE Spec2Model ----
(***************************************************************************)
(* A model of the people record-keeper: the SQLite-backed store of         *)
(* database_operations.py (table people, its AUTOINCREMENT counter, the    *)
(* CRUD functions and validate_person_data) and the Tkinter window of      *)
(* people_gui.py that calls it (listbox, Add and Edit windows, handlers).  *)
(*                                                                         *)
(* Text values are sequences of character codes, so that str.strip(), the  *)
(* BINARY collation of ORDER BY and membership in state_codes are computed *)
(* character by character.  Python's None / SQL NULL is the value None.    *)
(***************************************************************************)
EXTENDS Integers, Sequences, FiniteSets, TLC

\* Largest number of rows ever inserted in a run.
MaxId == 3

\* Largest number of rows ever inserted through the window.
MaxAppId == 2

\* Largest number of Add and Edit windows open at a time.
MaxWindows == 2

\* Largest number of rows ever inserted in a run in which calls can fail.
MaxFailId == 2

\* Python None, SQL NULL: a value that is no text (no text holds code -1).
None == <<-1>>

(***************************************************************************)
(* The table and the functions of database_operations.py                   *)
(***************************************************************************)

VARIABLES
    people,           \* the rows of table people: a set of records, one per row
    sqlite_sequence,  \* AUTOINCREMENT: the largest rowid table people ever held
    last,             \* the call of the store the latest step made, the listing
                      \* read by refresh_list apart: name, arguments, result,
                      \* exception
    returned,         \* history: the ids add_person has returned so far
    listed,           \* history: the results of the latest two GetAllPeople steps
    listbox,          \* self.listbox: its lines, top to bottom
    add_windows,      \* the number of open Add Person windows
    edit_windows,     \* the open Edit Person windows: the person_id each captured
    dialog,           \* the message box or details window the latest handler showed
    calls,            \* the calls of the store the latest handler made, in order
    conn              \* the call of the store that is under way, statement by
                      \* statement, or the latest that was: its connection

gui == <<listbox, add_windows, edit_windows, dialog, calls>>

vars == <<people, sqlite_sequence, last, returned, listed,
          listbox, add_windows, edit_windows, dialog, calls, conn>>

\* email declared "email TEXT", without NOT NULL.
NotNullColumnsButEmail ==
    {"first_name", "last_name", "job_title", "street", "city", "state", "postal"}

\* The columns CREATE TABLE people declares NOT NULL.
NotNullColumns ==
    {"first_name", "last_name", "email", "job_title", "street", "city",
     "state", "postal"}

\* The greatest element of a set of numbers.
Max(S) == CHOOSE m \in S : \A x \in S : x <= m

\* NOT NULL constraints: row r has a value in every NOT NULL column.
NotNullOK(r) == \A c \in NotNullColumns : r[c] # None

\* INTEGER PRIMARY KEY without AUTOINCREMENT: one more than the largest rowid
\* now in the table, so the id of a deleted last row is handed out again.
NewRowidReuse == Max({0} \cup {r.id : r \in people}) + 1

\* The smallest positive rowid no row holds: ids of deleted rows are handed
\* out again.
NewRowidGap ==
    CHOOSE n \in 1..(Cardinality(people) + 1) :
        /\ \A r \in people : r.id # n
        /\ \A m \in 1..(n - 1) : \E r \in people : r.id = m

\* INTEGER PRIMARY KEY AUTOINCREMENT: one more than the largest rowid the
\* table has ever held, which sqlite_sequence remembers.
NewRowid == Max({sqlite_sequence} \cup {r.id : r \in people}) + 1

\* The INSERT names email and job_title in the other order than the VALUES
\* tuple gives them.
InsertRowSwapped(id, f) ==
    [id |-> id, first_name |-> f[1], last_name |-> f[2], email |-> f[4],
     job_title |-> f[3], street |-> f[5], street2 |-> f[6], city |-> f[7],
     state |-> f[8], postal |-> f[9], notes |-> f[10]]

\* INSERT INTO people (first_name, last_name, email, job_title, street,
\* street2, city, state, postal, notes) VALUES (?, ...): the row stored for the
\* parameter tuple f, which is in the order of add_person's parameters.
InsertRow(id, f) ==
    [id |-> id, first_name |-> f[1], last_name |-> f[2], email |-> f[3],
     job_title |-> f[4], street |-> f[5], street2 |-> f[6], city |-> f[7],
     state |-> f[8], postal |-> f[9], notes |-> f[10]]

\* SELECT * : a row as the tuple of its columns in the order of CREATE TABLE.
SelectStar(r) ==
    <<r.id, r.first_name, r.last_name, r.email, r.job_title, r.street,
      r.street2, r.city, r.state, r.postal, r.notes>>

\* No WHERE clause: the statement applies to every row.
WhereAll(person_id) == people

\* WHERE id = ? : the rows the statement applies to.
WhereId(person_id) == {r \in people : r.id = person_id}

\* get_person_by_id: fetchone() of SELECT * FROM people WHERE id = ?.
get_person_by_id(person_id) ==
    IF WhereId(person_id) # {}
    THEN SelectStar(CHOOSE r \in WhereId(person_id) : TRUE)
    ELSE None

\* The SET clause leaves out street2 and notes: a partial update.
UpdateRowPartial(r, f) ==
    [id |-> r.id, first_name |-> f[1], last_name |-> f[2], email |-> f[3],
     job_title |-> f[4], street |-> f[5], street2 |-> r.street2, city |-> f[7],
     state |-> f[8], postal |-> f[9], notes |-> r.notes]

\* UPDATE people SET first_name=?, last_name=?, email=?, job_title=?, street=?,
\* street2=?, city=?, state=?, postal=?, notes=? : row r with the ten columns
\* rebound to the parameter tuple f; id is not in the SET clause.
UpdateRow(r, f) ==
    [id |-> r.id, first_name |-> f[1], last_name |-> f[2], email |-> f[3],
     job_title |-> f[4], street |-> f[5], street2 |-> f[6], city |-> f[7],
     state |-> f[8], postal |-> f[9], notes |-> f[10]]

\* The table is dropped and created again: rows and counter are lost.
create_database_drop ==
    /\ people' = {}
    /\ sqlite_sequence' = 0
    /\ last' = [op |-> "create_database", id |-> 0, f |-> <<>>,
                result |-> None, raised |-> ""]
    /\ UNCHANGED <<returned, listed>>

\* create_database: CREATE TABLE IF NOT EXISTS on the existing table.
create_database ==
    /\ last' = [op |-> "create_database", id |-> 0, f |-> <<>>,
                result |-> None, raised |-> ""]
    /\ UNCHANGED <<people, sqlite_sequence, returned, listed>>

\* add_person: one INSERT, the new rowid as result.  A NULL in a NOT NULL
\* column makes execute() raise IntegrityError before the commit.
add_person(f) ==
    IF NotNullOK(InsertRow(NewRowid, f))
    THEN /\ people' = people \cup {InsertRow(NewRowid, f)}
         /\ sqlite_sequence' = NewRowid
         /\ returned' = returned \cup {NewRowid}
         /\ last' = [op |-> "add_person", id |-> 0, f |-> f,
                     result |-> NewRowid, raised |-> ""]
         /\ UNCHANGED listed
    ELSE /\ last' = [op |-> "add_person", id |-> 0, f |-> f,
                     result |-> None, raised |-> "IntegrityError"]
         /\ UNCHANGED <<people, sqlite_sequence, returned, listed>>

\* INSERT OR REPLACE in the place of UPDATE: an id no row has gets a row.
update_person_upsert(person_id, f) ==
    /\ people' = (people \ WhereId(person_id)) \cup {InsertRow(person_id, f)}
    /\ last' = [op |-> "update_person", id |-> person_id, f |-> f,
                result |-> TRUE, raised |-> ""]
    /\ UNCHANGED <<sqlite_sequence, returned, listed>>

\* update_person: one UPDATE; True iff rowcount > 0.  The NOT NULL constraint
\* is checked for each row the WHERE clause selects, so with no such row
\* nothing is raised.
update_person(person_id, f) ==
    IF \E r \in WhereId(person_id) : ~NotNullOK(UpdateRow(r, f))
    THEN /\ last' = [op |-> "update_person", id |-> person_id, f |-> f,
                     result |-> None, raised |-> "IntegrityError"]
         /\ UNCHANGED <<people, sqlite_sequence, returned, listed>>
    ELSE /\ people' = (people \ WhereId(person_id))
                        \cup {UpdateRow(r, f) : r \in WhereId(person_id)}
         /\ last' = [op |-> "update_person", id |-> person_id, f |-> f,
                     result |-> (Cardinality(WhereId(person_id)) > 0),
                     raised |-> ""]
         /\ UNCHANGED <<sqlite_sequence, returned, listed>>

\* delete_person: one DELETE; True iff rowcount > 0.
delete_person(person_id) ==
    /\ people' = people \ WhereId(person_id)
    /\ last' = [op |-> "delete_person", id |-> person_id, f |-> <<>>,
                result |-> (Cardinality(WhereId(person_id)) > 0),
                raised |-> ""]
    /\ UNCHANGED <<sqlite_sequence, returned, listed>>

\* A call of get_person_by_id: the store is only read.
GetPersonById(person_id) ==
    /\ last' = [op |-> "get_person_by_id", id |-> person_id, f |-> <<>>,
                result |-> get_person_by_id(person_id), raised |-> ""]
    /\ UNCHANGED <<people, sqlite_sequence, returned, listed>>

(***************************************************************************)
(* get_all_people: ORDER BY last_name, first_name                          *)
(***************************************************************************)

\* BINARY collation (memcmp): text a sorts before text b.
RECURSIVE TextLess(_, _)
TextLess(a, b) ==
    IF b = <<>> THEN FALSE
    ELSE IF a = <<>> THEN TRUE
    ELSE IF a[1] # b[1] THEN a[1] < b[1]
    ELSE TextLess(Tail(a), Tail(b))

\* ORDER BY first_name, last_name: the two sort terms exchanged.
OrderByFirstLast(a, b) ==
    \/ TextLess(a.first_name, b.first_name)
    \/ a.first_name = b.first_name /\ TextLess(a.last_name, b.last_name)
    \/ a.first_name = b.first_name /\ a.last_name = b.last_name /\ a.id <= b.id

\* ORDER BY last_name, first_name: row a is delivered no later than row b.
\* Rows equal in both terms leave the sorter in the order the table scan
\* fed them to it, which is ascending rowid.
OrderBy(a, b) ==
    \/ TextLess(a.last_name, b.last_name)
    \/ a.last_name = b.last_name /\ TextLess(a.first_name, b.first_name)
    \/ a.last_name = b.last_name /\ a.first_name = b.first_name /\ a.id <= b.id

\* SELECT id, first_name, last_name, email: the four columns of row r.
SelectList(r) == <<r.id, r.first_name, r.last_name, r.email>>

\* The number of rows of S that ORDER BY delivers no later than row r, r
\* included: the place of r in the result.
Place(r, S) == Cardinality({q \in S : OrderBy(q, r)})

\* The rows of S from place i on, in the order of ORDER BY.
RECURSIVE FetchFrom(_, _)
FetchFrom(S, i) ==
    IF i > Cardinality(S) THEN <<>>
    ELSE (CHOOSE t \in {<<SelectList(r)>> : r \in {q \in S : Place(q, S) = i}} : TRUE)
            \o FetchFrom(S, i + 1)

\* fetchall() of the rows S under SELECT id, first_name, last_name, email
\* ... ORDER BY last_name, first_name.
fetchall(S) == FetchFrom(S, 1)

\* get_all_people.
get_all_people == fetchall(people)

\* A call of get_all_people: the store is only read.
GetAllPeople ==
    /\ last' = [op |-> "get_all_people", id |-> 0, f |-> <<>>,
                result |-> get_all_people, raised |-> ""]
    /\ listed' = IF listed = <<>> THEN <<get_all_people>>
                  ELSE <<listed[Len(listed)], get_all_people>>
    /\ UNCHANGED <<people, sqlite_sequence, returned>>

(***************************************************************************)
(* validate_person_data                                                    *)
(***************************************************************************)

\* The state abbreviations of state_codes: 50 states and DC.
state_codes ==
    {  <<65, 75>>, <<65, 76>>, <<65, 82>>, <<65, 90>>, <<67, 65>>, <<67, 79>>,
       <<67, 84>>, <<68, 67>>, <<68, 69>>, <<70, 76>>, <<71, 65>>, <<72, 73>>,
       <<73, 65>>, <<73, 68>>, <<73, 76>>, <<73, 78>>, <<75, 83>>, <<75, 89>>,
       <<76, 65>>, <<77, 65>>, <<77, 68>>, <<77, 69>>, <<77, 73>>, <<77, 78>>,
       <<77, 79>>, <<77, 83>>, <<77, 84>>, <<78, 67>>, <<78, 68>>, <<78, 69>>,
       <<78, 72>>, <<78, 74>>, <<78, 77>>, <<78, 86>>, <<78, 89>>, <<79, 72>>,
       <<79, 75>>, <<79, 82>>, <<80, 65>>, <<82, 73>>, <<83, 67>>, <<83, 68>>,
       <<84, 78>>, <<84, 88>>, <<85, 84>>, <<86, 65>>, <<86, 84>>, <<87, 65>>,
       <<87, 73>>, <<87, 86>>, <<87, 89>>  }

\* The characters str.strip() removes (those of str.isspace() below U+0100).
Whitespace == {9, 10, 11, 12, 13, 28, 29, 30, 31, 32, 133, 160}

\* s without its leading whitespace.
RECURSIVE lstrip(_)
lstrip(s) == IF s # <<>> /\ s[1] \in Whitespace THEN lstrip(Tail(s)) ELSE s

\* s without its trailing whitespace.
RECURSIVE rstrip(_)
rstrip(s) ==
    IF s # <<>> /\ s[Len(s)] \in Whitespace
    THEN rstrip(SubSeq(s, 1, Len(s) - 1)) ELSE s

\* str.strip(): s without its leading and trailing whitespace.
strip(s) == rstrip(lstrip(s))

\* Python's "not x" for x a str or None.
Not(x) == x = None \/ x = <<>>

\* "not x or not x.strip()": x is missing, empty or whitespace-only.
Missing(x) == Not(x) \/ Not(strip(x))

\* The state test without the membership in state_codes.
StateRejectedBlankOnly(state) == Not(state) \/ Not(strip(state))

\* "not state or not state.strip() or state not in state_codes".
StateRejected(state) ==
    Not(state) \/ Not(strip(state)) \/ state \notin state_codes

\* The checks in another order: postal before state.
validate_person_data_reordered(first_name, last_name, email, job_title, street, city, state, postal) ==
    IF Missing(first_name) THEN <<FALSE, "First name is required">>
    ELSE IF Missing(last_name) THEN <<FALSE, "Last name is required">>
    ELSE IF Missing(email) THEN <<FALSE, "Email is required">>
    ELSE IF Missing(job_title) THEN <<FALSE, "Job title is required">>
    ELSE IF Missing(street) THEN <<FALSE, "Street address is required">>
    ELSE IF Missing(city) THEN <<FALSE, "City is required">>
    ELSE IF Missing(postal) THEN <<FALSE, "Please enter a postal/zip code">>
    ELSE IF StateRejected(state)
         THEN <<FALSE, "Please enter a valid USPS state abbreviation">>
    ELSE <<TRUE, "">>

\* validate_person_data: (is_valid, error_message), the first failing check's
\* message.
validate_person_data(first_name, last_name, email, job_title, street, city, state, postal) ==
    IF Missing(first_name) THEN <<FALSE, "First name is required">>
    ELSE IF Missing(last_name) THEN <<FALSE, "Last name is required">>
    ELSE IF Missing(email) THEN <<FALSE, "Email is required">>
    ELSE IF Missing(job_title) THEN <<FALSE, "Job title is required">>
    ELSE IF Missing(street) THEN <<FALSE, "Street address is required">>
    ELSE IF Missing(city) THEN <<FALSE, "City is required">>
    ELSE IF StateRejected(state)
         THEN <<FALSE, "Please enter a valid USPS state abbreviation">>
    ELSE IF Missing(postal) THEN <<FALSE, "Please enter a postal/zip code">>
    ELSE <<TRUE, "">>

\* A call of validate_person_data with arguments v: nothing is read or
\* written but the arguments.
Validate(v) ==
    /\ last' = [op |-> "validate_person_data", id |-> 0, f |-> v,
                result |-> validate_person_data(v[1], v[2], v[3], v[4],
                                                v[5], v[6], v[7], v[8]),
                raised |-> ""]
    /\ UNCHANGED <<people, sqlite_sequence, returned, listed>>

(***************************************************************************)
(* people_gui.py: CRUDApplication                                          *)
(***************************************************************************)

NoDialog == <<>>

\* The value of last after a handler that made no call of the store.
NoCall == [op |-> "none", id |-> 0, f |-> <<>>, result |-> None, raised |-> ""]

\* str(n) for n >= 0.
RECURSIVE str(_)
str(n) == IF n < 10 THEN <<48 + n>> ELSE str(n \div 10) \o <<48 + (n % 10)>>

\* f"{person_id} - {first} {last} ({email if email else 'no email'})" for an
\* entry p = (id, first_name, last_name, email) of get_all_people.
display_text(p) ==
    str(p[1]) \o <<32, 45, 32>> \o p[2] \o <<32>> \o p[3] \o <<32, 40>>
        \o (IF Not(p[4]) THEN <<110, 111, 32, 101, 109, 97, 105, 108>> ELSE p[4])
        \o <<41>>

\* person_info.split(" - ")[0]: s up to its first " - ", all of s when it
\* has none.
RECURSIVE SplitHead(_)
SplitHead(s) ==
    IF Len(s) < 3 THEN s
    ELSE IF SubSeq(s, 1, 3) = <<32, 45, 32>> THEN <<>>
    ELSE <<s[1]>> \o SplitHead(Tail(s))

\* int(d) for a text of decimal digits; None stands for ValueError.
RECURSIVE int(_)
int(d) ==
    IF d = <<>> \/ \E i \in 1..Len(d) : d[i] \notin 48..57 THEN None
    ELSE IF Len(d) = 1 THEN d[1] - 48
    ELSE 10 * int(SubSeq(d, 1, Len(d) - 1)) + (d[Len(d)] - 48)

\* The lines the loop of refresh_list inserts for the listing L.
RECURSIVE Lines(_)
Lines(L) == IF L = <<>> THEN <<>> ELSE <<display_text(Head(L))>> \o Lines(Tail(L))

\* The record of refresh_list's call of get_all_people and its result.
ListCall(L) ==
    [op |-> "get_all_people", id |-> 0, f |-> <<>>, result |-> L, raised |-> ""]

\* The handler returns without calling refresh_list.
RefreshSkipped(made) == listbox' = listbox /\ calls' = made

\* refresh_list at the end of a handler that made the calls made: the listbox
\* gets the lines of the listing read from the table as the step leaves it.
Refresh(made) ==
    \E L \in {get_all_people'} :
        /\ listbox' = Lines(L)
        /\ calls' = made \o <<ListCall(L)>>

\* Entry.get().strip() of each of the ten fields of a form.
Stripped(raw) ==
    <<strip(raw[1]), strip(raw[2]), strip(raw[3]), strip(raw[4]), strip(raw[5]),
      strip(raw[6]), strip(raw[7]), strip(raw[8]), strip(raw[9]), strip(raw[10])>>

\* The form is passed on without validate_person_data being asked.
FormValidNoCheck(f) == <<TRUE, "">>

\* database.validate_person_data(first, last, email, job, street, city, state,
\* postal) on the stripped fields of a form: street2 and notes are left out.
FormValid(f) == validate_person_data(f[1], f[2], f[3], f[4], f[5], f[7], f[8], f[9])

\* The result of validation is not looked at: the handler always goes on.
is_valid_ignored(valid) == TRUE

\* is_valid of "is_valid, error_message = database.validate_person_data(...)",
\* which "if not is_valid: ... return" tests.
is_valid(valid) == valid[1]

\* The record of that call and its result.
ValidateCall(f, valid) ==
    [op |-> "validate_person_data", id |-> 0,
     f |-> <<f[1], f[2], f[3], f[4], f[5], f[7], f[8], f[9]>>,
     result |-> valid, raised |-> ""]

\* CRUDApplication.add_person: an Add Person window opens.
gui_add_person ==
    /\ add_windows' = add_windows + 1
    /\ dialog' = NoDialog
    /\ last' = NoCall
    /\ calls' = <<>>
    /\ UNCHANGED <<people, sqlite_sequence, returned, listed, listbox, edit_windows>>

\* save_person, the Save button of an Add Person window holding texts raw.
\* f and valid are its local variables: the stripped texts and the result of
\* validate_person_data.
save_person(raw) ==
    /\ add_windows > 0
    /\ \E f \in {Stripped(raw)} : \E valid \in {FormValid(f)} :
        IF ~is_valid(valid)
        THEN /\ last' = ValidateCall(f, valid)
             /\ calls' = <<ValidateCall(f, valid)>>
             /\ dialog' = <<"Validation Error", valid[2]>>
             /\ UNCHANGED <<people, sqlite_sequence, returned, listed,
                            listbox, add_windows, edit_windows>>
        ELSE /\ add_person(f)
             /\ IF last'.raised = ""
                THEN /\ dialog' = <<"Success", "Person added successfully!", last'.result>>
                     /\ add_windows' = add_windows - 1
                     /\ Refresh(<<ValidateCall(f, valid), last'>>)
                ELSE /\ dialog' = NoDialog
                     /\ calls' = <<ValidateCall(f, valid), last'>>
                     /\ UNCHANGED <<listbox, add_windows>>
             /\ UNCHANGED edit_windows

\* cancel_window of an Add Person window.
cancel_add ==
    /\ add_windows > 0
    /\ add_windows' = add_windows - 1
    /\ dialog' = NoDialog
    /\ last' = NoCall
    /\ calls' = <<>>
    /\ UNCHANGED <<people, sqlite_sequence, returned, listed, listbox, edit_windows>>

\* The place of the selected line in the listbox, counted from 0, is taken
\* for the id.
SelectedIndex(sel) == sel - 1

\* int(person_info.split(" - ")[0]) for the selected line.
SelectedId(sel) == int(SplitHead(listbox[sel]))

\* The record of a call of get_person_by_id and its result.
GetCall(person_id, person) ==
    [op |-> "get_person_by_id", id |-> person_id, f |-> <<>>,
     result |-> person, raised |-> ""]

\* CRUDApplication.read_person with line sel selected (0: no selection).
read_person(sel) ==
    /\ IF sel = 0
       THEN /\ dialog' = <<"No Selection", "Please select a person from the list!">>
            /\ last' = NoCall
            /\ calls' = <<>>
       ELSE \E person_id \in {SelectedId(sel)} :
            \E person \in {get_person_by_id(person_id)} :
               /\ last' = GetCall(person_id, person)
               /\ calls' = <<GetCall(person_id, person)>>
               /\ IF person = None
                  THEN dialog' = <<"Error", "Person not found in database!">>
                  ELSE dialog' = <<"Person Details", person>>
    /\ UNCHANGED <<people, sqlite_sequence, returned, listed,
                   listbox, add_windows, edit_windows>>

\* CRUDApplication.edit_person with line sel selected: an Edit Person window
\* opens and keeps the person_id read from the line.
edit_person(sel) ==
    /\ IF sel = 0
       THEN /\ dialog' = <<"No Selection", "Please select a person to edit!">>
            /\ last' = NoCall
            /\ calls' = <<>>
            /\ UNCHANGED edit_windows
       ELSE \E person_id \in {SelectedId(sel)} :
            \E person \in {get_person_by_id(person_id)} :
               /\ last' = GetCall(person_id, person)
               /\ calls' = <<GetCall(person_id, person)>>
               /\ IF person = None
                  THEN /\ dialog' = <<"Error", "Person not found in database!">>
                       /\ UNCHANGED edit_windows
                  ELSE /\ dialog' = NoDialog
                       /\ edit_windows' = Append(edit_windows, person_id)
    /\ UNCHANGED <<people, sqlite_sequence, returned, listed, listbox, add_windows>>

\* Sequence s without its k-th element.
Remove(s, k) == SubSeq(s, 1, k - 1) \o SubSeq(s, k + 1, Len(s))

\* update_person, the Update button of the k-th Edit Person window holding
\* texts raw; person_id is the id the window captured when it opened.
gui_update_person(k, raw) ==
    /\ k \in 1..Len(edit_windows)
    /\ \E f \in {Stripped(raw)} : \E valid \in {FormValid(f)} :
        IF ~is_valid(valid)
        THEN /\ last' = ValidateCall(f, valid)
             /\ calls' = <<ValidateCall(f, valid)>>
             /\ dialog' = <<"Validation Error", valid[2]>>
             /\ UNCHANGED <<people, sqlite_sequence, returned, listed,
                            listbox, add_windows, edit_windows>>
        ELSE /\ update_person(edit_windows[k], f)
             /\ IF last'.raised # ""
                THEN /\ dialog' = NoDialog
                     /\ calls' = <<ValidateCall(f, valid), last'>>
                     /\ UNCHANGED <<listbox, edit_windows>>
                ELSE IF last'.result
                THEN /\ dialog' = <<"Success", "Person updated successfully!">>
                     /\ edit_windows' = Remove(edit_windows, k)
                     /\ Refresh(<<ValidateCall(f, valid), last'>>)
                ELSE /\ dialog' = <<"Error", "Failed to update person!">>
                     /\ calls' = <<ValidateCall(f, valid), last'>>
                     /\ UNCHANGED <<listbox, edit_windows>>
             /\ UNCHANGED add_windows

\* cancel_window of the k-th Edit Person window.
cancel_edit(k) ==
    /\ k \in 1..Len(edit_windows)
    /\ edit_windows' = Remove(edit_windows, k)
    /\ dialog' = NoDialog
    /\ last' = NoCall
    /\ calls' = <<>>
    /\ UNCHANGED <<people, sqlite_sequence, returned, listed, listbox, add_windows>>

\* The confirmation is taken as given whatever the user answers.
askyesno_yes(answer) == TRUE

\* confirm = messagebox.askyesno("Confirm Delete", ...): True iff the user
\* answers Yes.
askyesno(answer) == answer

\* CRUDApplication.delete_person with line sel selected and the user's answer
\* to the confirmation.
gui_delete_person(sel, confirm) ==
    /\ IF sel = 0
       THEN /\ dialog' = <<"No Selection", "Please select a person to delete!">>
            /\ last' = NoCall
            /\ calls' = <<>>
            /\ UNCHANGED <<people, sqlite_sequence, returned, listed, listbox>>
       ELSE IF ~askyesno(confirm)
       THEN /\ dialog' = <<"Confirm Delete", listbox[sel]>>
            /\ last' = NoCall
            /\ calls' = <<>>
            /\ UNCHANGED <<people, sqlite_sequence, returned, listed, listbox>>
       ELSE \E person_id \in {SelectedId(sel)} :
               /\ delete_person(person_id)
               /\ IF last'.result
                  THEN /\ dialog' = <<"Success", "Person deleted successfully!">>
                       /\ Refresh(<<last'>>)
                  ELSE /\ dialog' = <<"Error", "Failed to delete person!">>
                       /\ calls' = <<last'>>
                       /\ UNCHANGED listbox
    /\ UNCHANGED <<add_windows, edit_windows>>

\* CRUDApplication.refresh_list, from the Refresh List menu entry.
refresh_list ==
    /\ UNCHANGED <<people, sqlite_sequence, returned, listed, add_windows, edit_windows>>
    /\ last' = NoCall
    /\ Refresh(<<>>)
    /\ dialog' = NoDialog

(***************************************************************************)
(* database_operations.py statement by statement, with storage failures    *)
(***************************************************************************)

\* No call of the store is under way and none was.
Idle ==
    [op |-> "none", id |-> 0, f |-> <<>>, pc |-> 0, status |-> "idle",
     before |-> <<{}, 0>>, writes |-> 0, commits |-> 0]

\* The operations that execute INSERT, UPDATE or DELETE.
WriteOps == {"add_person", "update_person", "delete_person"}

\* The write is split in two statements, each committed by itself.
ScriptTwice(op) ==
    IF op \in WriteOps
    THEN <<"connect", "execute", "commit", "execute", "commit", "close">>
    ELSE <<"connect", "execute", "fetch", "close">>

\* The statements of an operation after conn.cursor(), in order:
\* sqlite3.connect, cursor.execute of its one SQL statement, then conn.commit
\* (writes) or fetchone/fetchall (reads), then conn.close.
Script(op) ==
    IF op \in WriteOps
    THEN <<"connect", "execute", "commit", "close">>
    ELSE <<"connect", "execute", "fetch", "close">>

\* A caller calls operation op with arguments id and f: the call starts at
\* its first statement.  before keeps the table as the call found it.
Begin(op, id, f) ==
    /\ conn.status # "open"
    /\ conn' = [op |-> op, id |-> id, f |-> f, pc |-> 1, status |-> "open",
                before |-> <<people, sqlite_sequence>>, writes |-> 0,
                commits |-> 0]
    /\ last' = NoCall
    /\ UNCHANGED <<people, sqlite_sequence, returned, listed>>

\* The SQL statement of call c breaks a NOT NULL constraint: execute raises
\* IntegrityError.
Refused(c) ==
    \/ c.op = "add_person" /\ ~NotNullOK(InsertRow(NewRowid, c.f))
    \/ c.op = "update_person"
         /\ \E r \in WhereId(c.id) : ~NotNullOK(UpdateRow(r, c.f))

\* The effect of call c as a whole on the table and on last.
Apply(c) ==
    \/ c.op = "add_person" /\ add_person(c.f)
    \/ c.op = "update_person" /\ update_person(c.id, c.f)
    \/ c.op = "delete_person" /\ delete_person(c.id)
    \/ c.op = "get_person_by_id" /\ GetPersonById(c.id)
    \/ /\ c.op = "get_all_people"
       /\ last' = ListCall(get_all_people)
       /\ UNCHANGED <<people, sqlite_sequence, returned, listed>>

\* The call under way runs its next statement.  execute of a write works in
\* the connection's transaction, which the table does not show before
\* conn.commit makes it durable, all of it at once; a read has its result
\* when it returns, after conn.close.
Step ==
    /\ conn.status = "open"
    /\ \E stmt \in {Script(conn.op)[conn.pc]} :
        \E done \in {conn.pc = Len(Script(conn.op))} :
          IF stmt = "execute" /\ Refused(conn)
          THEN /\ Apply(conn)
               /\ conn' = [conn EXCEPT !.status = "refused"]
          ELSE IF stmt = "execute"
          THEN /\ conn' = [conn EXCEPT !.pc = @ + 1,
                             !.writes = IF conn.op \in WriteOps THEN @ + 1 ELSE @]
               /\ UNCHANGED <<people, sqlite_sequence, last, returned, listed>>
          ELSE IF stmt = "commit"
          THEN /\ Apply(conn)
               /\ conn' = [conn EXCEPT !.pc = @ + 1, !.commits = @ + 1]
          ELSE IF stmt = "close" /\ conn.op \notin WriteOps
          THEN /\ Apply(conn)
               /\ conn' = [conn EXCEPT !.status = "returned"]
          ELSE /\ conn' = [conn EXCEPT !.pc = IF done THEN @ ELSE @ + 1,
                             !.status = IF done THEN "returned" ELSE @]
               /\ UNCHANGED <<people, sqlite_sequence, last, returned, listed>>

\* The storage layer fails in the statement the call under way is at (file
\* locked, disk unavailable): sqlite3 raises OperationalError, no except
\* clause catches it, and the connection is dropped with whatever its
\* transaction had not committed.
Fail ==
    /\ conn.status = "open"
    /\ conn' = [conn EXCEPT !.status = "failed"]
    /\ last' = [op |-> conn.op, id |-> conn.id, f |-> conn.f,
                result |-> None, raised |-> "OperationalError"]
    /\ UNCHANGED <<people, sqlite_sequence, returned, listed>>

(***************************************************************************)
(* Inputs                                                                  *)
(***************************************************************************)

sEmpty == <<>>
sBlank == <<32>>
sJane == <<74, 97, 110, 101>>
sDoe == <<68, 111, 101>>
sAl == <<65, 108>>
sAdams == <<65, 100, 97, 109, 115>>
sMailJ == <<106, 64, 120>>
sMailK == <<107, 64, 120>>
sEng == <<69, 110, 103>>
sMain == <<49, 32, 83, 116>>
sApt == <<35, 50>>
sTroy == <<84, 114, 111, 121>>
sNY == <<78, 89>>
sZZ == <<90, 90>>
sZip == <<49, 50, 49, 56, 48>>
sNote == <<104, 105>>

\* Parameter tuples (first_name, last_name, email, job_title, street, street2,
\* city, state, postal, notes) the callers pass.
JaneDoe == <<sJane, sDoe, sMailJ, sEng, sMain, sEmpty, sTroy, sNY, sZip, sEmpty>>
JaneDoeK == <<sJane, sDoe, sMailK, sEng, sMain, sApt, sTroy, sNY, sZip, sNote>>
AlAdams == <<sAl, sAdams, sMailJ, sEng, sMain, None, sTroy, sNY, sZip, None>>
BlankName == <<sBlank, sDoe, sMailJ, sEng, sMain, sEmpty, sTroy, sZZ, sZip, sEmpty>>
NullEmail == <<sJane, sDoe, None, sEng, sMain, sEmpty, sTroy, sNY, sZip, sEmpty>>

Inputs == {JaneDoe, JaneDoeK, AlAdams, BlankName, NullEmail}

\* Parameter tuples for listings: two people of the same name with different
\* emails, and one whose last name sorts first and whose first name sorts last.
sZed == <<90, 101, 100>>
ZedAdams == <<sZed, sAdams, sMailJ, sEng, sMain, sEmpty, sTroy, sNY, sZip, sEmpty>>

OrderInputs == {JaneDoe, JaneDoeK, ZedAdams}

\* Parameter tuples that differ in the email: a text, the empty text, None.
EmptyEmail == <<sJane, sDoe, sEmpty, sEng, sMain, sEmpty, sTroy, sNY, sZip, sEmpty>>

EmailInputs == {ZedAdams, EmptyEmail, NullEmail}

\* Parameter tuples for calls that can fail.
FailInputs == {JaneDoe, ZedAdams, NullEmail}

\* The ids callers ask for in those runs.
FailIds == 1..(MaxFailId + 1)

\* Values of a required text argument of validate_person_data: None, empty,
\* whitespace-only, text, text in whitespace.
sTabs == <<32, 9, 10>>
sPadded == <<32, 65, 108, 9>>
RequiredVals == {None, sEmpty, sTabs, sAl}

\* Values of the state argument: the above, codes of the list, and texts
\* that are not: unknown, lower case, a code in whitespace.
sWY == <<87, 89>>
sLower == <<110, 121>>
sPadNY == <<32, 78, 89>>
StateVals == {None, sEmpty, sTabs, sNY, sWY, sZZ, sLower, sPadNY}

\* Argument tuples (first_name, last_name, email, job_title, street, city,
\* state, postal) of validate_person_data.
ValidateArgs ==
    RequiredVals \X RequiredVals \X RequiredVals \X RequiredVals
        \X RequiredVals \X RequiredVals \X StateVals
        \X (RequiredVals \cup {sPadded})

\* Texts typed into the ten entries of a form: valid ones in and without
\* surrounding whitespace, one with a whitespace-only first name, one with a
\* state that is no code.
sMailPad == <<32, 107, 64, 120>>
sJanePad == <<32, 74, 97, 110, 101, 9>>
sNYPad == <<78, 89, 32>>
sNoteLine == <<104, 105, 10>>
FormJane == <<sJanePad, sDoe, sMailJ, sEng, sMain, sEmpty, sTroy, sNYPad, sZip, sNoteLine>>
FormZed == <<sZed, sAdams, sMailPad, sEng, sMain, sApt, sTroy, sWY, sZip, <<10>>>>
FormBlank == <<sTabs, sDoe, sMailJ, sEng, sMain, sEmpty, sTroy, sNY, sZip, <<10>>>>
FormBadState == <<sJane, sDoe, sMailJ, sEng, sMain, sEmpty, sTroy, sZZ, sZip, <<10>>>>

Forms == {FormJane, FormZed, FormBlank, FormBadState}

\* The ids callers ask for: assigned ones and never assigned ones.
Ids == 1..(MaxId + 1)

(***************************************************************************)
(* Specification                                                           *)
(***************************************************************************)

\* CRUDApplication.__init__ on a new database file: create_database() made
\* the empty table and refresh_list() filled the listbox from it.
Init ==
    /\ people = {}
    /\ sqlite_sequence = 0
    /\ last = [op |-> "create_database", id |-> 0, f |-> <<>>,
               result |-> None, raised |-> ""]
    /\ returned = {}
    /\ listed = <<>>
    /\ listbox = <<>>
    /\ add_windows = 0
    /\ edit_windows = <<>>
    /\ dialog = NoDialog
    /\ calls = <<>>
    /\ conn = Idle

\* The functions of database_operations.py, called by any single caller.
Next ==
    \/ create_database /\ UNCHANGED <<gui, conn>>
    \/ \E f \in Inputs : sqlite_sequence < MaxId /\ add_person(f) /\ UNCHANGED <<gui, conn>>
    \/ \E i \in Ids, f \in Inputs : update_person(i, f) /\ UNCHANGED <<gui, conn>>
    \/ \E i \in Ids : delete_person(i) /\ UNCHANGED <<gui, conn>>
    \/ \E i \in Ids : GetPersonById(i) /\ UNCHANGED <<gui, conn>>

Spec == Init /\ [][Next]_vars

\* Insertions, deletions and listings.
NextOrder ==
    \/ \E f \in OrderInputs : sqlite_sequence < MaxId /\ add_person(f) /\ UNCHANGED <<gui, conn>>
    \/ \E i \in Ids : delete_person(i) /\ UNCHANGED <<gui, conn>>
    \/ GetAllPeople /\ UNCHANGED <<gui, conn>>

\* The application: every call of the store is made by a handler of the
\* window.
NextApp ==
    \/ add_windows + Len(edit_windows) < MaxWindows /\ gui_add_person /\ UNCHANGED conn
    \/ \E raw \in Forms : sqlite_sequence < MaxAppId /\ save_person(raw) /\ UNCHANGED conn
    \/ cancel_add /\ UNCHANGED conn
    \/ \E sel \in 0..Len(listbox) : read_person(sel) /\ UNCHANGED conn
    \/ \E sel \in 0..Len(listbox) :
          add_windows + Len(edit_windows) < MaxWindows /\ edit_person(sel) /\ UNCHANGED conn
    \/ \E k \in 1..Len(edit_windows), raw \in Forms :
          gui_update_person(k, raw) /\ UNCHANGED conn
    \/ \E k \in 1..Len(edit_windows) : cancel_edit(k) /\ UNCHANGED conn
    \/ \E sel \in 0..Len(listbox), confirm \in BOOLEAN :
          gui_delete_person(sel, confirm) /\ UNCHANGED conn
    \/ refresh_list /\ UNCHANGED conn

SpecApp == Init /\ [][NextApp]_vars

SpecOrder == Init /\ [][NextOrder]_vars

\* Insertions, updates and reads of people with and without an email.
NextEmail ==
    \/ \E f \in EmailInputs : sqlite_sequence < MaxId /\ add_person(f) /\ UNCHANGED <<gui, conn>>
    \/ \E i \in Ids, f \in EmailInputs : update_person(i, f) /\ UNCHANGED <<gui, conn>>
    \/ \E i \in Ids : GetPersonById(i) /\ UNCHANGED <<gui, conn>>

SpecEmail == Init /\ [][NextEmail]_vars

\* The functions of database_operations.py called one at a time, each run
\* statement by statement, the storage layer failing where it may.
NextFail ==
    \/ \E f \in FailInputs :
          sqlite_sequence < MaxFailId /\ Begin("add_person", 0, f) /\ UNCHANGED gui
    \/ \E i \in FailIds, f \in FailInputs :
          Begin("update_person", i, f) /\ UNCHANGED gui
    \/ \E i \in FailIds : Begin("delete_person", i, <<>>) /\ UNCHANGED gui
    \/ \E i \in FailIds : Begin("get_person_by_id", i, <<>>) /\ UNCHANGED gui
    \/ Begin("get_all_people", 0, <<>>) /\ UNCHANGED gui
    \/ Step /\ UNCHANGED gui
    \/ Fail /\ UNCHANGED gui

SpecFail == Init /\ [][NextFail]_vars

\* validate_person_data alone: a call with any argument tuple is waiting, and
\* the function runs on it.
InitValidate ==
    /\ people = {}
    /\ sqlite_sequence = 0
    /\ \E v \in ValidateArgs :
          last = [op |-> "call", id |-> 0, f |-> v, result |-> None, raised |-> ""]
    /\ returned = {}
    /\ listed = <<>>
    /\ listbox = <<>>
    /\ add_windows = 0
    /\ edit_windows = <<>>
    /\ dialog = NoDialog
    /\ calls = <<>>
    /\ conn = Idle

NextValidate == last.op = "call" /\ Validate(last.f) /\ UNCHANGED <<gui, conn>>

SpecValidate == InitValidate /\ [][NextValidate]_vars

(***************************************************************************)
(* Properties of validate_person_data                                      *)
(***************************************************************************)

\* The least element of a set of numbers.
Min(S) == CHOOSE m \in S : \A x \in S : m <= x

\* x is absent, empty or made of whitespace only.
IsBlank(x) == x = None \/ \A i \in 1..Len(x) : x[i] \in Whitespace

\* The rules, numbered in the documented order, that argument tuple v breaks:
\* 1 first_name, 2 last_name, 3 email, 4 job_title, 5 street, 6 city, 7 state,
\* 8 postal.
Broken(v) ==
    {k \in 1..8 : IF k = 7 THEN IsBlank(v[7]) \/ v[7] \notin state_codes
                           ELSE IsBlank(v[k])}

RuleMessage ==
    <<"First name is required", "Last name is required", "Email is required",
      "Job title is required", "Street address is required",
      "City is required", "Please enter a valid USPS state abbreviation",
      "Please enter a postal/zip code">>

\* C1: validate_person_data returns (False, m) with m the message of the first
\* rule, in the order first_name, last_name, email, job_title, street, city,
\* state, postal, that the arguments break; so a state outside the code set
\* with the six fields before it valid gives the state message whatever postal
\* is.
C1_FirstFailureWins ==
    (last.op = "validate_person_data" /\ Broken(last.f) # {})
        => last.result = <<FALSE, RuleMessage[Min(Broken(last.f))]>>

\* C1 happens: an unknown state and a blank postal code, the six fields
\* before them valid, and the state message returned.
C1_Witness ==
    /\ last.op = "validate_person_data"
    /\ Broken(last.f) = {7, 8}
    /\ last.f[7] = sZZ
    /\ last.result = <<FALSE, "Please enter a valid USPS state abbreviation">>

\* C2: validate_person_data returns (True, "") exactly when the seven required
\* texts are non-blank after trimming and state is one of the 51 codes, and the
\* message is empty exactly when is_valid is True.
C2_ValidIff ==
    /\ Cardinality(state_codes) = 51
    /\ last.op = "validate_person_data" =>
          /\ (last.result = <<TRUE, "">>) <=> (Broken(last.f) = {})
          /\ (last.result[2] = "") <=> (last.result[1] = TRUE)

\* C2 happens: a tuple with padded but non-blank text and a listed state is
\* accepted.
C2_Witness ==
    /\ last.op = "validate_person_data"
    /\ last.f[7] = sWY
    /\ last.f[8] = sPadded
    /\ last.result = <<TRUE, "">>

(***************************************************************************)
(* Properties of the store                                                 *)
(***************************************************************************)

\* The ids of the rows of table t.
IdsOf(t) == {r.id : r \in t}

\* The rows of table t other than those with id i.
Others(t, i) == {r \in t : r.id # i}

AddReturned ==
    last'.op = "add_person" /\ last'.raised = "" /\ people' # people

\* C4: every id add_person returns is greater than every id it returned
\* before, also after rows were updated or deleted; no two rows share an id;
\* the first add_person on a fresh store returns 1.
C4_IdsIncrease ==
    [][/\ AddReturned => \A j \in returned : last'.result > j
       /\ (AddReturned /\ returned = {}) => last'.result = 1
       /\ \A r \in people', q \in people' : r.id = q.id => r = q]_vars

\* C4 happens: ids 1 and 2 were returned and their rows deleted, and the
\* add_person after that returned 3.
C4_Witness ==
    /\ last.op = "add_person" /\ last.raised = ""
    /\ last.result = 3
    /\ IdsOf(people) = {3}
    /\ returned = {1, 2, 3}

\* The places of the NOT NULL columns in a parameter tuple.
RequiredAt == {1, 2, 3, 4, 5, 7, 8, 9}

\* C6: update_person(id, f) on an existing id, f giving a value to every
\* NOT NULL column, returns True; afterwards the row of id is (id, f), all ten
\* fields overwritten; every other row and the set of stored ids are
\* unchanged.
C6_UpdateReplaces ==
    [][(/\ last'.op = "update_person"
        /\ last'.id \in IdsOf(people)
        /\ \A k \in RequiredAt : last'.f[k] # None)
       => /\ last'.raised = ""
          /\ last'.result = TRUE
          /\ \E r \in people' : SelectStar(r) = <<last'.id>> \o last'.f
          /\ Cardinality({r \in people' : r.id = last'.id}) = 1
          /\ Others(people', last'.id) = Others(people, last'.id)
          /\ IdsOf(people') = IdsOf(people)]_vars

\* C6 happens: row 1 of two was updated to a tuple whose ten values differ
\* from the other inputs' in street2 and notes.
C6_Witness ==
    /\ last.op = "update_person" /\ last.raised = ""
    /\ last.result = TRUE
    /\ last.id = 1
    /\ last.f = JaneDoeK
    /\ get_person_by_id(1) = <<1>> \o JaneDoeK
    /\ IdsOf(people) = {1, 2}

\* C7: update_person(id, f) with an id no row has, never assigned or already
\* deleted, returns False, raises nothing and leaves the store as it was.
C7_UpdateMissing ==
    [][(last'.op = "update_person" /\ last'.id \notin IdsOf(people))
       => /\ last'.raised = ""
          /\ last'.result = FALSE
          /\ people' = people
          /\ sqlite_sequence' = sqlite_sequence]_vars

\* C7 happens: an update of a deleted id, with a NULL email, while another
\* row is stored, returned False.
C7_Witness ==
    /\ last.op = "update_person" /\ last.raised = ""
    /\ last.result = FALSE
    /\ last.f = NullEmail
    /\ last.id \in returned
    /\ last.id \notin IdsOf(people)
    /\ people # {}

\* C8: delete_person(id) on an existing id returns True and removes that row
\* and no other; on an id no row has it returns False and changes nothing;
\* and an id that was assigned and has no row never has a row again, so
\* get_person_by_id of a deleted id stays None.
C8_DeleteForGood ==
    [][/\ (last'.op = "delete_person" /\ last'.id \in IdsOf(people))
            => /\ last'.result = TRUE
               /\ last'.raised = ""
               /\ last'.id \notin IdsOf(people')
               /\ Others(people', last'.id) = Others(people, last'.id)
       /\ (last'.op = "delete_person" /\ last'.id \notin IdsOf(people))
            => /\ last'.result = FALSE
               /\ last'.raised = ""
               /\ people' = people
       /\ \A i \in returned : i \notin IdsOf(people) => i \notin IdsOf(people')]_vars

\* C8 happens: row 2 was deleted while row 1 stays, then add_person ran, and
\* get_person_by_id(2) is None.
C8_Witness ==
    /\ last.op = "add_person" /\ last.raised = ""
    /\ 2 \in returned
    /\ IdsOf(people) = {1, 3}
    /\ get_person_by_id(2) = None

\* C10: create_database, called at any point, raises nothing, leaves every
\* row and the AUTOINCREMENT counter as they were, and the add_person calls
\* after it still return ids greater than all earlier ones.
C10_CreateIdempotent ==
    [][/\ last'.op = "create_database"
            => /\ last'.raised = ""
               /\ people' = people
               /\ sqlite_sequence' = sqlite_sequence
       /\ AddReturned => last'.result > Max({0} \cup returned)]_vars

\* C10 happens: create_database was called on a store holding a row, after a
\* row with a larger id was deleted.
C10_Witness ==
    /\ last.op = "create_database"
    /\ people # {}
    /\ \E i \in returned : i \notin IdsOf(people) /\ \A r \in people : r.id < i

\* Row r has text that is not blank in first_name, last_name, email,
\* job_title, street, city and postal, and a state of the code list.
RecordOK(r) ==
    /\ ~IsBlank(r.first_name) /\ ~IsBlank(r.last_name) /\ ~IsBlank(r.email)
    /\ ~IsBlank(r.job_title) /\ ~IsBlank(r.street) /\ ~IsBlank(r.city)
    /\ ~IsBlank(r.postal)
    /\ r.state \in state_codes

\* A step in which add_person or update_person wrote a row.
Wrote ==
    /\ last'.op \in {"add_person", "update_person"}
    /\ last'.raised = ""
    /\ people' # people

\* C9 as stated: whatever successful add_person and update_person calls were
\* made, every stored record has non-blank required fields and a state of the
\* code list.
C9_StoredNeverBlank == \A r \in people : RecordOK(r)

\* C9 amended: add_person and update_person store the values they are given
\* without checking them, blank and unlisted ones too.  A successful call whose
\* field values validate_person_data accepts, as the callers of people_gui.py
\* make sure, writes a record with non-blank required fields and a state of
\* the code list, and leaves every other record as it was; so as long as all
\* calls are such calls, every stored record is of that kind.
C9_ValidatedWritesKeep ==
    [][/\ (Wrote /\ FormValid(last'.f)[1])
            => /\ \A r \in people' \ people : RecordOK(r)
               /\ (\A r \in people : RecordOK(r)) => \A r \in people' : RecordOK(r)
       /\ ~Wrote => people' \subseteq people]_vars

\* C9 happens: an accepted tuple was written over one record while another
\* record, stored by a call with a blank first name and an unlisted state,
\* is in the table.
C9_Witness ==
    /\ last.op = "update_person" /\ last.raised = ""
    /\ last.result = TRUE
    /\ FormValid(last.f)[1]
    /\ \E r \in people : r.id = last.id /\ RecordOK(r) /\ r.email = sMailK
    /\ \E r \in people : IsBlank(r.first_name) /\ r.state = sZZ

(***************************************************************************)
(* Properties of get_all_people                                            *)
(***************************************************************************)

\* (first_name, last_name, email) of each entry of listing L.
Shown(L) == [i \in 1..Len(L) |-> <<L[i][2], L[i][3], L[i][4]>>]

\* (last_name, first_name) of each entry of listing L.
Keys(L) == [i \in 1..Len(L) |-> <<L[i][3], L[i][2]>>]

\* How often x occurs in sequence s.
Count(s, x) == Cardinality({i \in 1..Len(s) : s[i] = x})

\* Sequences s and t hold the same elements the same number of times.
SameBag(s, t) ==
    /\ Len(s) = Len(t)
    /\ \A i \in 1..Len(s) : Count(s, s[i]) = Count(t, s[i])

\* Entry a of a listing sorts strictly before entry b by (last_name, first_name).
KeyBefore(a, b) ==
    \/ TextLess(a[3], b[3])
    \/ a[3] = b[3] /\ TextLess(a[2], b[2])

\* No two entries of listing L share (last_name, first_name) and differ in what
\* is shown of them.
NoAmbiguousTie(L) ==
    \A i \in 1..Len(L), j \in 1..Len(L) :
        Keys(L)[i] = Keys(L)[j] => Shown(L)[i] = Shown(L)[j]

\* C5 as stated: two listings of the same multiset of people, whatever the
\* order they were inserted in, show the same sequence of (first_name,
\* last_name, email), also when two people share (last_name, first_name).
C5_AnyInsertionOrder ==
    (Len(listed) = 2 /\ SameBag(Shown(listed[1]), Shown(listed[2])))
        => Shown(listed[1]) = Shown(listed[2])

\* C5 amended: get_all_people returns every stored row once, as (id,
\* first_name, last_name, email), ascending by last_name and then first_name;
\* two listings of the same multiset of people have the same sequence of
\* (last_name, first_name), and the same sequence of (first_name, last_name,
\* email) when no two people who share (last_name, first_name) differ in
\* email.  The order among people who share both names is not decided by the
\* sort: it follows their ids, that is their insertion order.
C5_SortedByNames ==
    /\ last.op = "get_all_people" =>
          /\ listed[Len(listed)] = last.result
          /\ Len(last.result) = Cardinality(people)
          /\ {last.result[i] : i \in 1..Len(last.result)}
                = {<<r.id, r.first_name, r.last_name, r.email>> : r \in people}
          /\ \A i \in 1..Len(last.result), j \in 1..Len(last.result) :
                i < j => ~KeyBefore(last.result[j], last.result[i])
    /\ (Len(listed) = 2 /\ SameBag(Shown(listed[1]), Shown(listed[2])))
          => /\ Keys(listed[1]) = Keys(listed[2])
             /\ NoAmbiguousTie(listed[1]) => Shown(listed[1]) = Shown(listed[2])

\* C5 happens: the same two people, with different names, were listed after
\* being inserted in one order and again after being inserted in the other.
C5_Witness ==
    /\ last.op = "get_all_people"
    /\ Len(listed) = 2
    /\ Len(listed[1]) = 2
    /\ Shown(listed[1]) = Shown(listed[2])
    /\ Keys(listed[1])[1] # Keys(listed[1])[2]
    /\ listed[1][1][1] < listed[1][2][1]
    /\ listed[2][1][1] > listed[2][2][1]

(***************************************************************************)
(* Properties of the window's handlers                                     *)
(***************************************************************************)

\* The eight of the ten field values f that validate_person_data takes.
FieldsOf(f) == <<f[1], f[2], f[3], f[4], f[5], f[7], f[8], f[9]>>

\* The i-th call of handler run c is a call of one of the operations ops.
IsCall(c, i, ops) == c[i].op \in ops

\* Before its i-th call, handler run c called validate_person_data, which
\* answered valid; if the i-th call has field values, on the same values.
PrecededByValid(c, i) ==
    \E j \in 1..(i - 1) :
        /\ c[j].op = "validate_person_data"
        /\ c[j].result = <<TRUE, "">>
        /\ Broken(c[j].f) = {}
        /\ c[i].op # "delete_person" => c[j].f = FieldsOf(c[i].f)

\* C11 as stated: every call of add_person, update_person or delete_person a
\* handler makes comes after a validate_person_data call of the same handler
\* that returned valid.
C11_ValidateBeforeMutation ==
    \A i \in 1..Len(calls) :
        IsCall(calls, i, {"add_person", "update_person", "delete_person"})
            => PrecededByValid(calls, i)

\* C11 amended: every call of add_person or update_person a handler makes
\* comes after a validate_person_data call of the same handler, on the same
\* field values, that returned valid; delete_person, which has no field
\* values, is the first call of its handler, made with no validation; and
\* when validate_person_data returns invalid the handler makes no other call,
\* the store and the listbox are unchanged and the form window stays open.
C11_ValidateBeforeWrite ==
    [][/\ \A i \in 1..Len(calls') :
            /\ IsCall(calls', i, {"add_person", "update_person"})
                  => PrecededByValid(calls', i)
            /\ IsCall(calls', i, {"delete_person"}) => i = 1
       /\ (\E i \in 1..Len(calls') :
              /\ calls'[i].op = "validate_person_data"
              /\ calls'[i].result[1] = FALSE)
            => /\ Len(calls') = 1
               /\ people' = people
               /\ sqlite_sequence' = sqlite_sequence
               /\ listbox' = listbox
               /\ add_windows' = add_windows
               /\ edit_windows' = edit_windows]_vars

\* C11 happens: the Update button of an Edit window called
\* validate_person_data on the stripped texts of a form typed with
\* surrounding whitespace, then update_person with the same values, which
\* changed the row.
C11_Witness ==
    /\ Len(calls) = 3
    /\ calls[1].op = "validate_person_data"
    /\ calls[1].f = FieldsOf(Stripped(FormJane))
    /\ calls[2].op = "update_person" /\ calls[2].result = TRUE
    /\ calls[2].f = Stripped(FormJane)
    /\ calls[3].op = "get_all_people"
    /\ \E r \in people : r.id = calls[2].id /\ r.first_name = sJane

\* Handler run c called delete_person.
CalledDelete(c) == \E i \in 1..Len(c) : c[i].op = "delete_person"

\* C12: the window calls delete_person only in the Delete handler, with a
\* line selected and after the user answered Yes to the confirmation, and
\* for the id of the selected line; with no line selected or the answer No,
\* delete_person is not called and the store and the listbox are unchanged.
C12_DeleteOnlyConfirmed ==
    [][/\ \A sel \in 0..Len(listbox), confirm \in BOOLEAN :
            gui_delete_person(sel, confirm) =>
                /\ (sel = 0 \/ ~confirm)
                      => /\ ~CalledDelete(calls')
                         /\ people' = people
                         /\ sqlite_sequence' = sqlite_sequence
                         /\ listbox' = listbox
                /\ CalledDelete(calls')
                      => /\ sel # 0 /\ confirm
                         /\ calls'[1].id = SelectedId(sel)
       /\ CalledDelete(calls')
            => \E sel \in 1..Len(listbox) : gui_delete_person(sel, TRUE)]_vars

\* C12 happens: with two people listed the user chose Delete on the second
\* line and answered No, and both are still stored and listed.
C12_Witness ==
    /\ Len(listbox) = 2
    /\ dialog = <<"Confirm Delete", listbox[2]>>
    /\ calls = <<>>
    /\ Cardinality(people) = 2

\* Handler run c made a mutation that succeeded: add_person returned, or
\* update_person or delete_person returned True.
Mutated(c) ==
    \E i \in 1..Len(c) :
        /\ c[i].op \in {"add_person", "update_person", "delete_person"}
        /\ c[i].raised = ""
        /\ c[i].op = "add_person" \/ c[i].result = TRUE

\* The line "id - first last (email)" of row r.
LineOf(r) ==
    str(r.id) \o <<32, 45, 32>> \o r.first_name \o <<32>> \o r.last_name
        \o <<32, 40>> \o r.email \o <<41>>

\* C13: a handler that made a successful mutation (Save, Update, confirmed
\* Delete) ends with a call of get_all_people, and when it returns the listbox
\* holds one line per stored record and no other, in the order of
\* get_all_people, each line showing the id, first name, last name and email
\* its record has now.
C13_RefreshedAfterMutation ==
    [][Mutated(calls') =>
        /\ calls'[Len(calls')].op = "get_all_people"
        /\ calls'[Len(calls')].result = get_all_people'
        /\ Len(listbox') = Cardinality(people')
        /\ \A i \in 1..Len(listbox') :
              \E r \in people' :
                 /\ r.id = get_all_people'[i][1]
                 /\ listbox'[i] = LineOf(r)
        /\ \A i \in 1..Len(listbox'), j \in 1..Len(listbox') :
              i < j => ~KeyBefore(get_all_people'[j], get_all_people'[i])]_vars

\* C13 happens: the second of two people was renamed in an Edit window so
\* that it sorts first, and the listbox shows it on the first line under its
\* new name.
C13_Witness ==
    /\ Len(calls) = 3
    /\ calls[2].op = "update_person" /\ calls[2].result = TRUE /\ calls[2].id = 2
    /\ Len(listbox) = 2
    /\ \E r \in people : r.id = 2 /\ r.first_name = sZed /\ listbox[1] = LineOf(r)
    /\ \E r \in people : r.id = 1 /\ listbox[2] = LineOf(r)

(***************************************************************************)
(* Properties of the email column                                          *)
(***************************************************************************)

\* Parameter tuple f has a value for every NOT NULL column but email.
OthersPresent(f) == \A k \in RequiredAt \ {3} : f[k] # None

\* The entry of listing L for id i.
EntryOf(L, i) == L[CHOOSE k \in 1..Len(L) : L[k][1] = i]

\* The listbox line of listing entry e when it shows 'no email'.
NoEmailLine(e) ==
    str(e[1]) \o <<32, 45, 32>> \o e[2] \o <<32>> \o e[3]
        \o <<32, 40, 110, 111, 32, 101, 109, 97, 105, 108, 41>>

Complete(c) ==
    LET rows == c.before[1]
        seq == c.before[2]
        n == Max({seq} \cup IdsOf(rows)) + 1
    IN  IF c.op = "add_person" THEN <<rows \cup {InsertRow(n, c.f)}, n>>
        ELSE IF c.op = "update_person"
        THEN <<{IF r.id = c.id THEN UpdateRow(r, c.f) ELSE r : r \in rows}, seq>>
        ELSE IF c.op = "delete_person" THEN <<{r \in rows : r.id # c.id}, seq>>
        ELSE c.before

\* C15: add_person, update_person and delete_person execute one write and
\* commit once; a storage failure in any statement of a call reaches the
\* caller as the exception raised and leaves the table exactly as the call
\* found it (before the commit) or exactly as a complete call leaves it (after
\* the commit), as it is at every point of the call; get_all_people and
\* get_person_by_id write and commit nothing and leave the table as it was.
C15_AllOrNothing ==
    /\ conn.status \in {"open", "failed"}
          => \/ <<people, sqlite_sequence>> = conn.before
             \/ <<people, sqlite_sequence>> = Complete(conn)
    /\ conn.status = "failed"
          => /\ last.op = conn.op
             /\ last.raised = "OperationalError"
             /\ <<people, sqlite_sequence>>
                   = IF conn.commits > 0 THEN Complete(conn) ELSE conn.before
    /\ conn.status = "refused"
          => /\ last.raised = "IntegrityError"
             /\ <<people, sqlite_sequence>> = conn.before
    /\ conn.status = "returned"
          => /\ last.op = conn.op /\ last.raised = ""
             /\ <<people, sqlite_sequence>> = Complete(conn)
             /\ conn.op \in WriteOps => conn.writes = 1 /\ conn.commits = 1
    /\ conn.op \notin WriteOps
          => /\ <<people, sqlite_sequence>> = conn.before
             /\ conn.writes = 0 /\ conn.commits = 0

\* C15 happens: update_person had executed its UPDATE of an existing row when
\* the storage layer failed in conn.commit, and the row is as it was.
C15_Witness ==
    /\ conn.status = "failed"
    /\ conn.op = "update_person"
    /\ Script(conn.op)[conn.pc] = "commit"
    /\ conn.writes = 1
    /\ Complete(conn) # conn.before
    /\ <<people, sqlite_sequence>> = conn.before
    /\ last.raised = "OperationalError"

(***************************************************************************)
(* Properties of the listbox and the windows                               *)
(***************************************************************************)

\* The ids parsed from the lines of the listbox.
ListedIds == {int(SplitHead(listbox[k])) : k \in 1..Len(listbox)}

\* C16: between any two user actions the listbox has one line per stored
\* record and the ids parsed from its lines are exactly the stored ids, so
\* Read and Edit never show 'Person not found in database!' and a confirmed
\* Delete never shows 'Failed to delete person!'.
C16_ListboxInSync ==
    /\ Len(listbox) = Cardinality(people)
    /\ ListedIds = IdsOf(people)
    /\ dialog # <<"Error", "Person not found in database!">>
    /\ dialog # <<"Error", "Failed to delete person!">>
    /\ \A i \in 1..Len(calls) :
          /\ calls[i].op = "get_person_by_id" => calls[i].result # None
          /\ calls[i].op = "delete_person" => calls[i].result = TRUE

\* C16 happens: an Update failed, for a person deleted while the Edit window
\* was open, so that the listbox was not refreshed, and the listbox still
\* lists the one person stored.
C16_Witness ==
    /\ dialog = <<"Error", "Failed to update person!">>
    /\ Cardinality(people) = 1
    /\ ListedIds = IdsOf(people)
    /\ edit_windows # <<>>

\* Handler run c called update_person for id i with fields f and got result b.
CalledUpdate(c, i, f, b) ==
    \E n \in 1..Len(c) :
        /\ c[n].op = "update_person" /\ c[n].raised = ""
        /\ c[n].id = i /\ c[n].f = f /\ c[n].result = b

\* C17: an Edit window keeps the id it was opened for.  Its Update, with
\* valid fields, on an id whose person was deleted meanwhile calls
\* update_person on that id, shows 'Failed to update person!', creates no
\* record and changes none, stays open and leaves the listbox as it was.  On
\* an id that is stored, whatever an earlier Update of another Edit window on
\* the same person wrote, all ten fields of the record become the ones of
\* this window, no other record changes, and the window closes.
C17_EditKeepsId ==
    [][\A k \in 1..Len(edit_windows), raw \in Forms :
          (gui_update_person(k, raw) /\ Broken(FieldsOf(Stripped(raw))) = {})
            => IF edit_windows[k] \notin IdsOf(people)
               THEN /\ CalledUpdate(calls', edit_windows[k], Stripped(raw), FALSE)
                    /\ dialog' = <<"Error", "Failed to update person!">>
                    /\ people' = people
                    /\ sqlite_sequence' = sqlite_sequence
                    /\ edit_windows' = edit_windows
                    /\ listbox' = listbox
                    /\ \A n \in 1..Len(calls') : calls'[n].op # "get_all_people"
               ELSE /\ CalledUpdate(calls', edit_windows[k], Stripped(raw), TRUE)
                    /\ \E r \in people' :
                          SelectStar(r) = <<edit_windows[k]>> \o Stripped(raw)
                    /\ Others(people', edit_windows[k]) = Others(people, edit_windows[k])
                    /\ IdsOf(people') = IdsOf(people)
                    /\ Len(edit_windows') = Len(edit_windows) - 1]_vars

\* C17 happens: the person of the first Edit window was deleted from the
\* main window, the Update of that window with valid fields failed, the
\* window is still open and the other person is stored and listed as before.
C17_Witness ==
    /\ Len(calls) = 2
    /\ calls[2].op = "update_person" /\ calls[2].result = FALSE
    /\ calls[2].f = Stripped(FormZed)
    /\ edit_windows # <<>>
    /\ calls[2].id = edit_windows[1]
    /\ edit_windows[1] \notin IdsOf(people)
    /\ Len(listbox) = 1
    /\ \E r \in people : listbox[1] = LineOf(r) /\ r.first_name = sJane

====
